---- MODULE Spec2Model ----
(***************************************************************************)
(* The workflow graph of orchestra (src/orchestra/graphing.py): a directed *)
(* multigraph of tasks and conditional transitions, the task and workflow  *)
(* state guard, and the next-task resolution with join barriers.           *)
(*                                                                         *)
(* Python values are represented as follows.  An optional value (a dict    *)
(* key that may be missing, or None) is a sequence of length 0 or 1.  Task *)
(* ids are integers; a task's name is an integer as well, so that names    *)
(* and ids are ordered the way Python orders strings.  A Python exception  *)
(* is the err field of an operation's outcome.                             *)
(***************************************************************************)
EXTENDS Integers, Sequences, FiniteSets, TLC

VARIABLES
    graph,   \* WorkflowGraph._graph: node attributes, edges, graph attributes
    last,    \* the most recent call: operation, arguments, outcome
    fired,   \* history: transitions some get_next_tasks call found firing
    log,     \* history of the driver of a run: the get_next_tasks results
    workers  \* the get_next_tasks calls in progress, one per concurrent worker

vars == <<graph, last, fired, log, workers>>

-----------------------------------------------------------------------------
(* Bounds of the model. *)

MaxRunEdges == 2    \* transitions the client of SpecRun creates
MaxBuildEdges == 3  \* transitions the client of SpecBuild creates
MaxInbound == 3     \* predecessors of the join task in the barrier specification
MaxEditEdges == 2   \* transitions the client of SpecEdit creates
MaxItems == 2       \* elements of a sequence handed to validate
MaxPairs == 1       \* entries of a mapping handed to validate
MaxDagTasks == 3    \* tasks of the acyclic workflows of SpecProgress

-----------------------------------------------------------------------------
(* Optional values. *)

None == <<>>
Some(v) == <<v>>
Val(o) == o[1]

\* All task ids any specification uses; the barrier specification has
\* MaxInbound predecessors and the join task.
TaskIds == 1 .. (MaxInbound + 1)

\* The name a caller gives task id: names are ordered against ids, and the
\* order of the names is the reverse of the order of the ids.
TaskName(id) == 2 * Cardinality(TaskIds) + 1 - id

-----------------------------------------------------------------------------
(* orchestra.states: the state machine. *)

ALL_STATES == {"running", "succeeded", "failed"}

COMPLETED_STATES == {"succeeded", "failed"}

\* A value outside the declared set, as a caller may pass it.
BogusState == "bogus"

\* The validity relation; an absent old state admits the initial state.
VALID_STATE_TRANSITION_MAP ==
    {<<None, Some("running")>>,
     <<Some("running"), Some("succeeded")>>,
     <<Some("running"), Some("failed")>>}

\* is_transition_valid(old_state, new_state): "valid", "invalid", or the
\* error it raises.  A call without a new state (None) validates nothing.
is_transition_valid(old, new) ==
    IF new = None THEN "valid"
    ELSE IF Val(new) \notin ALL_STATES THEN "InvalidState"
    ELSE IF <<old, new>> \in VALID_STATE_TRANSITION_MAP THEN "valid"
    ELSE "invalid"

-----------------------------------------------------------------------------
(* Outcomes of an operation: the graph it leaves, the exception it raised   *)
(* ("ok" for none) and the value it returned.                               *)

Ret(g, err, val) == [g |-> g, err |-> err, val |-> val]

\* WorkflowGraph(): an empty multigraph without a state.
EmptyGraph ==
    [node |-> [t \in TaskIds |-> None], edge |-> <<>>, state |-> None]

\* Keyword arguments of add_task / update_task: each key given or not.
NoKw == [state |-> None, name |-> None, barrier |-> None, extra |-> None]

\* Barrier values: the wildcard '*', a count, or the empty string.
Star == [kind |-> "star", n |-> 0]
Count(n) == [kind |-> "int", n |-> n]
EmptyStr == [kind |-> "empty", n |-> 0]

has_task(g, id) == g.node[id] # None

Node(g, id) == Val(g.node[id])

\* The state property (getter).
state(g) == g.state

\* The state setter.
set_state(g, value) ==
    IF value \notin ALL_STATES THEN Ret(g, "ValueError", None)
    ELSE IF is_transition_valid(state(g), Some(value)) # "valid"
         THEN Ret(g, "InvalidStateTransition", None)
    ELSE Ret([g EXCEPT !.state = Some(value)], "ok", None)

\* dict.update of the node attributes by the keyword arguments given.
MergeAttrs(attrs, kw) ==
    [k \in DOMAIN attrs |-> IF kw[k] # None THEN kw[k] ELSE attrs[k]]

\* update_task with the attributes merged before the state is validated.
update_task_merge_first(g, id, kw) ==
    IF ~has_task(g, id) THEN Ret(g, "Exception", None)
    ELSE LET old_state == Node(g, id).state
             v == is_transition_valid(old_state, kw.state)
             merged == [g EXCEPT !.node[id] = Some(MergeAttrs(Node(g, id), kw))]
         IN  IF v = "InvalidState" THEN Ret(merged, "InvalidState", None)
             ELSE IF v = "invalid" THEN Ret(merged, "InvalidStateTransition", None)
             ELSE Ret(merged, "ok", None)

\* update_task that takes the task's current state for a state not given.
update_task_state_defaults_to_old(g, id, kw) ==
    IF ~has_task(g, id) THEN Ret(g, "Exception", None)
    ELSE LET old_state == Node(g, id).state
             new_state == IF kw.state = None THEN old_state ELSE kw.state
             v == is_transition_valid(old_state, new_state)
         IN  IF v = "InvalidState" THEN Ret(g, "InvalidState", None)
             ELSE IF v = "invalid" THEN Ret(g, "InvalidStateTransition", None)
             ELSE Ret([g EXCEPT !.node[id] = Some(MergeAttrs(Node(g, id), kw))],
                      "ok", None)

update_task(g, id, kw) ==
    IF ~has_task(g, id) THEN Ret(g, "Exception", None)
    ELSE LET old_state == Node(g, id).state
             new_state == kw.state
             v == is_transition_valid(old_state, new_state)
         IN  IF v = "InvalidState" THEN Ret(g, "InvalidState", None)
             ELSE IF v = "invalid" THEN Ret(g, "InvalidStateTransition", None)
             ELSE Ret([g EXCEPT !.node[id] = Some(MergeAttrs(Node(g, id), kw))],
                      "ok", None)

add_task(g, id, kw) ==
    IF ~has_task(g, id)
    THEN Ret([g EXCEPT !.node[id] = Some(kw)], "ok", None)
    ELSE update_task(g, id, kw)

\* reset_task that keeps the name only.
reset_task_name_only(g, id) ==
    IF ~has_task(g, id) THEN Ret(g, "Exception", None)
    ELSE Ret([g EXCEPT !.node[id] = Some([NoKw EXCEPT !.name = Node(g, id).name])],
             "ok", None)

\* reset_task that also clears the satisfied marks of the task's inbound
\* transitions.
reset_task_clears_inbound(g, id) ==
    IF ~has_task(g, id) THEN Ret(g, "Exception", None)
    ELSE LET task_attrs == [NoKw EXCEPT !.name = Node(g, id).name,
                                        !.barrier = Node(g, id).barrier]
             clear(e) == IF e.dst = id THEN [e EXCEPT !.satisfied = FALSE]
                         ELSE e
         IN  Ret([g EXCEPT !.node[id] = Some(task_attrs),
                           !.edge = [i \in DOMAIN g.edge |-> clear(g.edge[i])]],
                 "ok", None)

reset_task(g, id) ==
    IF ~has_task(g, id) THEN Ret(g, "Exception", None)
    ELSE LET task_attrs == [NoKw EXCEPT !.name = Node(g, id).name,
                                        !.barrier = Node(g, id).barrier]
         IN  Ret([g EXCEPT !.node[id] = Some(task_attrs)], "ok", None)

-----------------------------------------------------------------------------
(* Transitions.  graph.edge lists the edges of the multigraph in the order  *)
(* they were added; an edge is identified by (src, dst, key).               *)

\* Criteria: a criterion is the literal True or False, or an expression
\* that an evaluator resolves against the caller's context.
ExprX == "<% $.x %>"

\* expressions.evaluate(statement, data): a non-string statement (the
\* literals True and False, written "True" and "False") is returned
\* unchanged; an expression is resolved by its evaluator against the
\* context, which is here the value the caller's context gives x.  The
\* __task_states entry get_next_tasks adds to the context is read by none
\* of the criteria used.
evaluate(criterion, context) ==
    IF criterion = ExprX THEN context ELSE criterion = "True"

\* all(evaluate(c) for c in criteria)
RECURSIVE AllTruthy(_, _)
AllTruthy(criteria, context) ==
    IF criteria = <<>> THEN TRUE
    ELSE evaluate(Head(criteria), context) /\ AllTruthy(Tail(criteria), context)

\* Filter of a sequence of edges by a set of edges, keeping the order.
RECURSIVE EdgesIn(_, _)
EdgesIn(es, S) ==
    IF es = <<>> THEN <<>>
    ELSE (IF Head(es) \in S THEN <<Head(es)>> ELSE <<>>) \o EdgesIn(Tail(es), S)

EdgeSet(g) == {g.edge[i] : i \in DOMAIN g.edge}

\* has_transition that matches the endpoints the wrong way round.
has_transition_swapped(g, source, destination, criteria) ==
    EdgesIn(g.edge, {e \in EdgeSet(g) : /\ e.src = destination
                                        /\ e.dst = source
                                        /\ e.criteria = criteria})

has_transition(g, source, destination, criteria) ==
    EdgesIn(g.edge, {e \in EdgeSet(g) : /\ e.src = source
                                        /\ e.dst = destination
                                        /\ e.criteria = criteria})

\* get_transition(source, destination, key=key, criteria=criteria): the
\* edges of the pair whose criteria equal criteria or whose key is key.
get_transition(g, source, destination, key, criteria) ==
    LET seqs == EdgesIn(g.edge, {e \in EdgeSet(g) :
                        /\ e.src = source
                        /\ e.dst = destination
                        /\ (e.criteria = criteria \/ Some(e.key) = key)})
    IN  IF seqs = <<>> THEN Ret(g, "Exception", None)
        ELSE IF Len(seqs) > 1 THEN Ret(g, "Exception", None)
        ELSE Ret(g, "ok", Some(seqs[1]))

\* Keyword arguments of update_transition: each attribute given or not.
NoEdgeKw == [criteria |-> None, satisfied |-> None]

\* update_transition that writes to every transition of the pair.
update_transition_any_key(g, source, destination, key, kw) ==
    LET r == get_transition(g, source, destination, Some(key), None)
    IN  IF r.err # "ok" THEN Ret(g, r.err, None)
        ELSE LET upd(e) == IF e.src = source /\ e.dst = destination
                           THEN [e EXCEPT
                                   !.criteria = IF kw.criteria # None
                                                THEN Val(kw.criteria) ELSE @,
                                   !.satisfied = IF kw.satisfied # None
                                                 THEN Val(kw.satisfied) ELSE @]
                           ELSE e
             IN  Ret([g EXCEPT !.edge = [i \in DOMAIN g.edge |-> upd(g.edge[i])]],
                     "ok", None)

update_transition(g, source, destination, key, kw) ==
    LET r == get_transition(g, source, destination, Some(key), None)
    IN  IF r.err # "ok" THEN Ret(g, r.err, None)
        ELSE LET k == Val(r.val).key
                 upd(e) == IF e.src = source /\ e.dst = destination /\ e.key = k
                           THEN [e EXCEPT
                                   !.criteria = IF kw.criteria # None
                                                THEN Val(kw.criteria) ELSE @,
                                   !.satisfied = IF kw.satisfied # None
                                                 THEN Val(kw.satisfied) ELSE @]
                           ELSE e
             IN  Ret([g EXCEPT !.edge = [i \in DOMAIN g.edge |-> upd(g.edge[i])]],
                     "ok", None)

\* MultiDiGraph.add_edge without a key: the key is the number of edges the
\* pair already has (edges are never removed).
NewKey(g, source, destination) ==
    Cardinality({e \in EdgeSet(g) : e.src = source /\ e.dst = destination})

add_edge(g, source, destination, criteria) ==
    [g EXCEPT !.edge = Append(@, [src |-> source, dst |-> destination,
                                   key |-> NewKey(g, source, destination),
                                   criteria |-> criteria,
                                   satisfied |-> FALSE])]

add_transition(g, source, destination, criteria) ==
    LET g1 == IF ~has_task(g, source) THEN add_task(g, source, NoKw).g ELSE g
        g2 == IF ~has_task(g1, destination)
              THEN add_task(g1, destination, NoKw).g ELSE g1
        seqs == has_transition(g2, source, destination, criteria)
    IN  IF Len(seqs) > 1 THEN Ret(g2, "Exception", None)
        ELSE IF seqs = <<>>
             THEN Ret(add_edge(g2, source, destination, criteria), "ok", None)
        ELSE LET r == update_transition(g2, source, destination, seqs[1].key,
                                        [NoEdgeKw EXCEPT !.criteria = Some(criteria)])
             IN  Ret(r.g, r.err, None)

\* sorted(edges, key=destination): a stable insertion sort; edges of one
\* pair keep the order of their keys.
RECURSIVE InsertByDst(_, _)
InsertByDst(e, sorted) ==
    IF sorted = <<>> THEN <<e>>
    ELSE IF e.dst < Head(sorted).dst THEN <<e>> \o sorted
    ELSE <<Head(sorted)>> \o InsertByDst(e, Tail(sorted))

RECURSIVE SortByDst(_)
SortByDst(es) ==
    IF es = <<>> THEN <<>>
    ELSE InsertByDst(es[Len(es)], SortByDst(SubSeq(es, 1, Len(es) - 1)))

get_next_transitions(g, id) ==
    SortByDst(EdgesIn(g.edge, {e \in EdgeSet(g) : e.src = id}))

\* The sort key of get_prev_transitions is the task itself: the order of
\* the inbound edges is the order of the multigraph.
get_prev_transitions(g, id) ==
    EdgesIn(g.edge, {e \in EdgeSet(g) : e.dst = id})

set_barrier(g, id, value) ==
    update_task(g, id, [NoKw EXCEPT !.barrier = Some(value)])

get_barrier(g, id) == Node(g, id).barrier

has_barrier(g, id) ==
    LET b == get_barrier(g, id)
    IN  b # None /\ Val(b) # EmptyStr

-----------------------------------------------------------------------------
(* Task queries. *)

\* sorted(tasks, key=name): a stable insertion sort.
RECURSIVE InsertByName(_, _)
InsertByName(t, sorted) ==
    IF sorted = <<>> THEN <<t>>
    ELSE IF t.name < Head(sorted).name THEN <<t>> \o sorted
    ELSE <<Head(sorted)>> \o InsertByName(t, Tail(sorted))

RECURSIVE SortByName(_)
SortByName(ts) ==
    IF ts = <<>> THEN <<>>
    ELSE InsertByName(ts[Len(ts)], SortByName(SubSeq(ts, 1, Len(ts) - 1)))

\* The tasks of the graph with in-degree 0, in the order of the node dict.
RECURSIVE StartList(_, _)
StartList(g, n) ==
    IF n = 0 THEN <<>>
    ELSE StartList(g, n - 1) \o
         (IF has_task(g, n) /\ get_prev_transitions(g, n) = <<>>
          THEN <<[id |-> n,
                  name |-> IF Node(g, n).name # None
                           THEN Val(Node(g, n).name) ELSE n]>>
          ELSE <<>>)

get_start_tasks(g) ==
    Ret(g, "ok", SortByName(StartList(g, Cardinality(TaskIds))))

\* The first loop of get_next_tasks with every outgoing transition taken as
\* firing.
RECURSIVE OutboundsIgnoringCriteria(_, _)
OutboundsIgnoringCriteria(seqs, context) ==
    IF seqs = <<>> THEN [err |-> "ok", out |-> <<>>]
    ELSE IF Head(seqs).criteria = None THEN [err |-> "TypeError", out |-> <<>>]
    ELSE LET rest == OutboundsIgnoringCriteria(Tail(seqs), context)
         IN  IF rest.err # "ok" THEN rest
             ELSE [rest EXCEPT !.out = <<Head(seqs)>> \o @]

\* The first loop of get_next_tasks: "TypeError" when the criteria of an
\* outgoing transition are None, else the transitions whose criteria are
\* all truthy, in the order of get_next_transitions.
RECURSIVE Outbounds(_, _)
Outbounds(seqs, context) ==
    IF seqs = <<>> THEN [err |-> "ok", out |-> <<>>]
    ELSE IF Head(seqs).criteria = None THEN [err |-> "TypeError", out |-> <<>>]
    ELSE LET rest == Outbounds(Tail(seqs), context)
         IN  IF rest.err # "ok" THEN rest
             ELSE IF AllTruthy(Val(Head(seqs).criteria), context)
                  THEN [rest EXCEPT !.out = <<Head(seqs)>> \o @]
             ELSE rest

\* The count of satisfied inbound transitions without the filter.
SatisfiedInboundUnfiltered(g, id) == get_prev_transitions(g, id)

\* The inbound transitions of a task that are marked satisfied.
SatisfiedInbound(g, id) ==
    EdgesIn(get_prev_transitions(g, id),
            {e \in EdgeSet(g) : e.dst = id /\ e.satisfied})

\* The barrier check with the comparison off by one.
BelowBarrierOffByOne(g, next_task_id) ==
    /\ has_barrier(g, next_task_id)
    /\ LET b == Val(get_barrier(g, next_task_id))
           inbounds == get_prev_transitions(g, next_task_id)
           satisfied == SatisfiedInbound(g, next_task_id)
           barrier == IF b = Star THEN Len(inbounds) ELSE b.n
       IN  Len(satisfied) <= barrier

\* The barrier check of a destination: TRUE when the destination is skipped.
BelowBarrier(g, next_task_id) ==
    /\ has_barrier(g, next_task_id)
    /\ LET b == Val(get_barrier(g, next_task_id))
           inbounds == get_prev_transitions(g, next_task_id)
           satisfied == SatisfiedInbound(g, next_task_id)
           barrier == IF b = Star THEN Len(inbounds) ELSE b.n
       IN  Len(satisfied) < barrier

\* The current attributes of the edge a (src, dst, key) triple names.
EdgeNow(g, e) ==
    CHOOSE c \in EdgeSet(g) : c.src = e.src /\ c.dst = e.dst /\ c.key = e.key

\* The second loop of get_next_tasks over the fired transitions: marks each
\* one satisfied, checks the barrier of its destination, appends the
\* destination; an exception ends the loop and keeps the marks made so far.
RECURSIVE NextLoop(_, _, _, _)
NextLoop(g, task_id, outbounds, tasks) ==
    IF outbounds = <<>> THEN Ret(g, "ok", SortByName(tasks))
    ELSE LET seq == Head(outbounds)
             next_task_id == seq.dst
             r == IF ~EdgeNow(g, seq).satisfied
                  THEN update_transition(g, task_id, next_task_id, seq.key,
                                         [NoEdgeKw EXCEPT !.satisfied = Some(TRUE)])
                  ELSE Ret(g, "ok", None)
         IN  IF r.err # "ok" THEN Ret(r.g, r.err, None)
             ELSE IF BelowBarrier(r.g, next_task_id)
                  THEN NextLoop(r.g, task_id, Tail(outbounds), tasks)
             ELSE IF Node(r.g, next_task_id).name = None
                  THEN Ret(r.g, "KeyError", None)
             ELSE NextLoop(r.g, task_id, Tail(outbounds),
                           Append(tasks, [id |-> next_task_id,
                                          name |-> Val(Node(r.g, next_task_id).name)]))

get_next_tasks(g, task_id, context) ==
    IF ~has_task(g, task_id) THEN Ret(g, "Exception", None)
    ELSE IF Node(g, task_id).state = None THEN Ret(g, "KeyError", None)
    ELSE IF Val(Node(g, task_id).state) \notin COMPLETED_STATES
         THEN Ret(g, "ok", <<>>)
    ELSE LET o == Outbounds(get_next_transitions(g, task_id), context)
         IN  IF o.err # "ok" THEN Ret(g, o.err, None)
             ELSE NextLoop(g, task_id, o.out, <<>>)

\* The transitions a get_next_tasks call finds firing: those its first loop
\* collects, when the call gets that far.
FiredBy(g, task_id, context) ==
    IF \/ ~has_task(g, task_id)
       \/ Node(g, task_id).state = None
       \/ Val(Node(g, task_id).state) \notin COMPLETED_STATES
    THEN {}
    ELSE LET o == Outbounds(get_next_transitions(g, task_id), context)
         IN  IF o.err # "ok" THEN {}
             ELSE {<<o.out[i].src, o.out[i].dst, o.out[i].key>> : i \in DOMAIN o.out}

-----------------------------------------------------------------------------
(* The calls a client makes, as actions.  last records the call: its       *)
(* operation and arguments, the attributes the task it names had before    *)
(* (pre), and the outcome.                                                  *)

\* No call in progress: the calls of a single caller run to completion.
NoWorkers == <<>>

Call(op, id, kw, pre, r) ==
    /\ graph' = r.g
    /\ last' = [op |-> op, id |-> id, kw |-> kw, pre |-> pre,
                err |-> r.err, val |-> r.val]
    /\ UNCHANGED workers

NoCall ==
    [op |-> "init", id |-> 0, kw |-> NoKw, pre |-> None, err |-> "ok",
     val |-> None]

AddTask(id, kw) ==
    /\ Call("add_task", id, kw, graph.node[id], add_task(graph, id, kw))
    /\ UNCHANGED <<fired, log>>

UpdateTask(id, kw) ==
    /\ Call("update_task", id, kw, graph.node[id], update_task(graph, id, kw))
    /\ UNCHANGED <<fired, log>>

ResetTask(id) ==
    /\ Call("reset_task", id, NoKw, graph.node[id], reset_task(graph, id))
    /\ UNCHANGED <<fired, log>>

SetBarrier(id, value) ==
    /\ Call("set_barrier", id, [NoKw EXCEPT !.barrier = Some(value)],
            graph.node[id], set_barrier(graph, id, value))
    /\ UNCHANGED <<fired, log>>

\* The workflow state setter; the value is recorded as the state keyword
\* and the workflow state before as pre.
SetState(value) ==
    /\ Call("set_state", 0, [NoKw EXCEPT !.state = Some(value)],
            state(graph), set_state(graph, value))
    /\ UNCHANGED <<fired, log>>

\* add_transition(source, destination, criteria); the destination is
\* recorded as pre and the criteria as the extra keyword.
AddTransition(source, destination, criteria) ==
    /\ Call("add_transition", source, [NoKw EXCEPT !.extra = criteria],
            Some(destination),
            add_transition(graph, source, destination, criteria))
    /\ UNCHANGED <<fired, log>>

\* add_transition by a client that creates at most max transitions.
AddTransitionUpTo(max, source, destination, criteria) ==
    /\ \/ Len(graph.edge) < max
       \/ has_transition(graph, source, destination, criteria) # <<>>
    /\ AddTransition(source, destination, criteria)

GetStartTasks ==
    /\ Call("get_start_tasks", 0, NoKw, None, get_start_tasks(graph))
    /\ UNCHANGED <<fired, log>>

\* get_next_tasks(task_id, context); the context is recorded as pre.
GetNextTasks(task_id, context) ==
    /\ Call("get_next_tasks", task_id, NoKw, Some(context),
            get_next_tasks(graph, task_id, context))
    /\ fired' = fired \cup FiredBy(graph, task_id, context)
    /\ UNCHANGED log

-----------------------------------------------------------------------------
(* Specification Spec: a client that creates, updates and resets task 1     *)
(* with every attribute and task 2 with a name or a state, sets the         *)
(* workflow state, and links the two by one transition, in any order.       *)

GenIds == {1, 2}

StateArgs == ALL_STATES \cup {BogusState}

\* The keyword arguments the client passes to add_task and update_task.
KwArgs(id) ==
    {NoKw, [NoKw EXCEPT !.name = Some(TaskName(id))],
     [NoKw EXCEPT !.state = Some("running")]}
    \cup IF id # 1 THEN {}
         ELSE {[NoKw EXCEPT !.extra = Some(id)],
               [NoKw EXCEPT !.barrier = Some(Star)]}
              \cup {[NoKw EXCEPT !.state = Some(s)] : s \in StateArgs}
              \cup {[NoKw EXCEPT !.state = Some(s), !.extra = Some(id)] :
                       s \in StateArgs}

Init ==
    /\ graph = EmptyGraph
    /\ last = NoCall
    /\ fired = {}
    /\ log = <<>>
    /\ workers = NoWorkers

Next ==
    \/ \E id \in GenIds : \E kw \in KwArgs(id) : AddTask(id, kw)
    \/ \E id \in GenIds : \E kw \in KwArgs(id) : UpdateTask(id, kw)
    \/ \E id \in GenIds : ResetTask(id)
    \/ SetBarrier(1, Star)
    \/ \E s \in StateArgs : SetState(s)
    \/ AddTransition(1, 2, Some(<<>>))
    \/ GetStartTasks
    \/ \E id \in GenIds : GetNextTasks(id, TRUE)

Spec == Init /\ [][Next]_vars

-----------------------------------------------------------------------------
(* Properties of Spec. *)

\* The states of the state machine, as optional values.
DeclaredOpt == {Some(s) : s \in ALL_STATES}

\* C4: the state-transition guard.  A call update_task(id, state=new) on
\* a task in state old (absent included), and the workflow state setter on
\* a graph in state old, succeeds and makes the state new when the state
\* machine declares (old, new) valid; otherwise it fails with
\* InvalidStateTransition and leaves the task, with every attribute passed
\* in the same call, as it was.
C4_StateGuard ==
    /\ (/\ last.op \in {"update_task", "add_task"}
        /\ last.pre # None
        /\ last.kw.state \in DeclaredOpt
        /\ Val(last.pre).state \in DeclaredOpt \cup {None})
       => IF <<Val(last.pre).state, last.kw.state>> \in VALID_STATE_TRANSITION_MAP
          THEN /\ last.err = "ok"
               /\ Node(graph, last.id) = MergeAttrs(Val(last.pre), last.kw)
          ELSE /\ last.err = "InvalidStateTransition"
               /\ graph.node[last.id] = last.pre
    /\ (/\ last.op = "set_state"
        /\ last.kw.state \in DeclaredOpt
        /\ last.pre \in DeclaredOpt \cup {None})
       => IF <<last.pre, last.kw.state>> \in VALID_STATE_TRANSITION_MAP
          THEN last.err = "ok" /\ graph.state = last.kw.state
          ELSE last.err = "InvalidStateTransition" /\ graph.state = last.pre

\* A rejected update_task that also passed another attribute, on a task in
\* a declared state.
C4_Witness ==
    /\ last.op = "update_task"
    /\ last.pre # None
    /\ Val(last.pre).state = Some("succeeded")
    /\ last.kw.state = Some("running")
    /\ last.kw.extra # None
    /\ last.err = "InvalidStateTransition"

\* C5: the state of every task and of the workflow is absent or a member
\* of the declared state set, and a call that passes a state outside the
\* set fails and leaves the graph unchanged.
C5_StateDomain ==
    /\ graph.state \in DeclaredOpt \cup {None}
    /\ \A t \in TaskIds :
          has_task(graph, t) => Node(graph, t).state \in DeclaredOpt \cup {None}
    /\ (last.kw.state = Some(BogusState)) => last.err # "ok"

\* C6: reset_task(id) on an existing task leaves it with its name and its
\* barrier (each absent if it was absent) and nothing else, and changes no
\* other task, no transition and not the workflow state; on a task that
\* does not exist it fails and changes nothing.
C6_Reset ==
    [][last'.op = "reset_task" =>
          IF ~has_task(graph, last'.id)
          THEN last'.err = "Exception" /\ graph' = graph
          ELSE /\ last'.err = "ok"
               /\ graph'.node[last'.id] =
                    Some([state |-> None,
                          name |-> Node(graph, last'.id).name,
                          barrier |-> Node(graph, last'.id).barrier,
                          extra |-> None])
               /\ \A t \in TaskIds \ {last'.id} : graph'.node[t] = graph.node[t]
               /\ graph'.edge = graph.edge
               /\ graph'.state = graph.state]_vars

\* A reset of a task that had all four attributes, in a graph with another
\* task, a satisfied transition and a workflow state.
C6_Witness ==
    /\ last.op = "reset_task"
    /\ last.err = "ok"
    /\ last.pre # None
    /\ Val(last.pre).state # None
    /\ Val(last.pre).name # None
    /\ Val(last.pre).barrier # None
    /\ Val(last.pre).extra # None
    /\ \E t \in TaskIds \ {last.id} : has_task(graph, t)
    /\ \E i \in DOMAIN graph.edge : graph.edge[i].satisfied
    /\ graph.state # None

-----------------------------------------------------------------------------
(* Specification SpecRun: a client that builds transitions from task 1 to   *)
(* tasks 2 and 3, with and without criteria, moves task 1 through its       *)
(* states, resets tasks and asks for the next tasks, in any order.          *)

RunIds == {1, 2, 3}

RunDsts == {2, 3}

CriteriaArgs == {None, Some(<<>>), Some(<<ExprX>>)}

RunKwArgs(id) == {NoKw, [NoKw EXCEPT !.name = Some(TaskName(id))]}

NextRun ==
    \/ \E id \in RunIds : \E kw \in RunKwArgs(id) : AddTask(id, kw)
    \/ \E s \in ALL_STATES : UpdateTask(1, [NoKw EXCEPT !.state = Some(s)])
    \/ \E id \in RunIds : ResetTask(id)
    \/ \E d \in RunDsts : \E c \in CriteriaArgs :
          AddTransitionUpTo(MaxRunEdges, 1, d, c)
    \/ GetStartTasks
    \/ \E id \in RunIds : \E x \in BOOLEAN : GetNextTasks(id, x)

SpecRun == Init /\ [][NextRun]_vars

\* The name a task is reported with: its name, or its id without one.
ReportedName(g, id) ==
    IF Node(g, id).name # None THEN Val(Node(g, id).name) ELSE id

\* The task is in a completed state.
Completed(g, id) ==
    /\ has_task(g, id)
    /\ Node(g, id).state # None
    /\ Val(Node(g, id).state) \in COMPLETED_STATES

\* C3: get_next_tasks on an existing task whose state is not a completed
\* state, an absent state included, returns the empty sequence and raises
\* no error.
C3_NotCompletedEmpty ==
    (/\ last.op = "get_next_tasks"
     /\ has_task(graph, last.id)
     /\ ~Completed(graph, last.id))
    => last.err = "ok" /\ last.val = <<>>

\* C7: a transition is marked satisfied only if an earlier get_next_tasks
\* call on its source, made while the source was completed, found all its
\* criteria truthy; and a transition once marked satisfied stays marked.
C7_SatisfiedJustified ==
    /\ [](\A i \in DOMAIN graph.edge :
            graph.edge[i].satisfied =>
              <<graph.edge[i].src, graph.edge[i].dst, graph.edge[i].key>> \in fired)
    /\ [][\A i \in DOMAIN graph.edge :
            graph.edge[i].satisfied =>
              /\ i \in DOMAIN graph'.edge
              /\ graph'.edge[i] = graph.edge[i]]_vars

\* After a transition was marked satisfied next to a parallel one that was
\* not, its source was reset.
C7_Witness ==
    /\ last.op = "reset_task"
    /\ last.id = 1
    /\ last.err = "ok"
    /\ \E i, j \in DOMAIN graph.edge :
          /\ graph.edge[i].satisfied
          /\ ~graph.edge[j].satisfied
          /\ graph.edge[i].dst = graph.edge[j].dst
          /\ graph.edge[j].criteria # None

\* C8: the sequence get_next_tasks returns holds each task at most once and
\* is sorted by name.
C8_DedupSorted ==
    (last.op = "get_next_tasks" /\ last.err = "ok")
    => \A i, j \in DOMAIN last.val :
          i < j => /\ last.val[i].id # last.val[j].id
                   /\ last.val[i].name <= last.val[j].name

\* C9: get_start_tasks and get_next_tasks report a task without a name
\* under its id and do not fail for the missing name: a get_next_tasks call
\* on a completed task whose transitions all carry criteria succeeds.
C9_NameDefaultsToId ==
    /\ last.op = "get_start_tasks" =>
          /\ last.err = "ok"
          /\ \A i \in DOMAIN last.val :
                last.val[i].name = ReportedName(graph, last.val[i].id)
    /\ (/\ last.op = "get_next_tasks"
        /\ Completed(graph, last.id)
        /\ \A i \in DOMAIN graph.edge :
              graph.edge[i].src = last.id => graph.edge[i].criteria # None)
       => /\ last.err = "ok"
          /\ \A i \in DOMAIN last.val :
                last.val[i].name = ReportedName(graph, last.val[i].id)

-----------------------------------------------------------------------------
(* Specification SpecBuild: a client that only constructs the graph, with   *)
(* add_task and add_transition over two tasks, repeating arguments freely.  *)

NextBuild ==
    \/ \E id \in GenIds : \E kw \in RunKwArgs(id) : AddTask(id, kw)
    \/ \E s \in GenIds : \E d \in GenIds : \E c \in CriteriaArgs :
          AddTransitionUpTo(MaxBuildEdges, s, d, c)

SpecBuild == Init /\ [][NextBuild]_vars

\* C10: no two transitions have the same source, the same destination and
\* equal criteria.
C10_TransitionsUnique ==
    \A i, j \in DOMAIN graph.edge :
       (/\ graph.edge[i].src = graph.edge[j].src
        /\ graph.edge[i].dst = graph.edge[j].dst
        /\ graph.edge[i].criteria = graph.edge[j].criteria) => i = j

\* add_transition was repeated with the arguments of an earlier transition,
\* between a pair that has a parallel transition with other criteria.
C10_Witness ==
    /\ last.op = "add_transition"
    /\ last.err = "ok"
    /\ \E i, j \in DOMAIN graph.edge :
          /\ i < Len(graph.edge)
          /\ i # j
          /\ graph.edge[i].src = last.id
          /\ graph.edge[i].dst = Val(last.pre)
          /\ graph.edge[i].criteria = last.kw.extra
          /\ graph.edge[j].src = last.id
          /\ graph.edge[j].dst = Val(last.pre)

-----------------------------------------------------------------------------
(* Specification SpecBarrier: a join task with MaxInbound predecessors,     *)
(* each linked to it by a transition whose criterion reads the context,     *)
(* and possibly a second, unconditional transition from predecessor 1.  The *)
(* barrier of the join task is any count or the wildcard.  The graph is     *)
(* built by add_task and add_transition; then the predecessors change       *)
(* state and get_next_tasks is called for them, in any order.               *)

Preds == 1 .. MaxInbound

JoinTask == MaxInbound + 1

Named(id) == [NoKw EXCEPT !.name = Some(TaskName(id))]

\* add_task(n, name=...) for the tasks 1..n.
RECURSIVE WithTasks(_, _)
WithTasks(g, n) ==
    IF n = 0 THEN g ELSE add_task(WithTasks(g, n - 1), n, Named(n)).g

\* add_transition(p, join, criteria) for the predecessors 1..n.
RECURSIVE WithInbound(_, _, _, _)
WithInbound(g, n, join, criteria) ==
    IF n = 0 THEN g
    ELSE add_transition(WithInbound(g, n - 1, join, criteria),
                        n, join, criteria).g

BarrierValues == {Star} \cup {Count(n) : n \in 1 .. MaxInbound}

BarrierGraph(b, parallel) ==
    LET g1 == WithTasks(EmptyGraph, JoinTask)
        g2 == set_barrier(g1, JoinTask, b).g
        g3 == WithInbound(g2, MaxInbound, JoinTask, Some(<<ExprX>>))
    IN  IF parallel THEN add_transition(g3, 1, JoinTask, Some(<<>>)).g ELSE g3

InitBarrier ==
    /\ \E b \in BarrierValues : \E parallel \in BOOLEAN :
          graph = BarrierGraph(b, parallel)
    /\ last = NoCall
    /\ fired = {}
    /\ log = <<>>
    /\ workers = NoWorkers

\* The states the predecessors are moved to.
BarrierStates == {"running", "succeeded"}

NextBarrier ==
    \/ \E p \in Preds : \E s \in BarrierStates :
          UpdateTask(p, [NoKw EXCEPT !.state = Some(s)])
    \/ \E p \in Preds : \E x \in BOOLEAN : GetNextTasks(p, x)

SpecBarrier == InitBarrier /\ [][NextBarrier]_vars

\* The ids of the tasks a call returned.
ResultIds(val) == {val[i].id : i \in DOMAIN val}

\* The inbound transitions of a task, and those marked satisfied.
Inbound(g, id) == {e \in EdgeSet(g) : e.dst = id}

SatisfiedCount(g, id) == Cardinality({e \in Inbound(g, id) : e.satisfied})

\* The threshold of a barrier: N for a count, the number of inbound
\* transitions for the wildcard.
Threshold(g, id) ==
    IF Val(Node(g, id).barrier) = Star THEN Cardinality(Inbound(g, id))
    ELSE Val(Node(g, id).barrier).n

\* Some transition from p to d fires in the context.
FiresTo(g, p, d, context) ==
    \E e \in EdgeSet(g) :
       /\ e.src = p /\ e.dst = d /\ e.criteria # None
       /\ \A i \in DOMAIN Val(e.criteria) :
             IF Val(e.criteria)[i] = ExprX THEN context
             ELSE Val(e.criteria)[i] = "True"

\* C1: get_next_tasks for a completed predecessor whose transition to a
\* task with a barrier fires returns, and its result includes that task if
\* and only if the number of the task's inbound transitions marked
\* satisfied after the call is at least the threshold of the barrier.
C1_BarrierThreshold ==
    \A d \in TaskIds :
       (/\ last.op = "get_next_tasks"
        /\ Completed(graph, last.id)
        /\ has_task(graph, d)
        /\ Node(graph, d).barrier # None
        /\ Val(Node(graph, d).barrier) # EmptyStr
        /\ FiresTo(graph, last.id, d, Val(last.pre)))
       => /\ last.err = "ok"
          /\ (d \in ResultIds(last.val)
                <=> SatisfiedCount(graph, d) >= Threshold(graph, d))

\* With barrier 2 and more inbound transitions than two, the call of the
\* second predecessor to complete returns the join task; the first
\* predecessor to have completed was not predecessor 1.
C1_Witness ==
    /\ last.op = "get_next_tasks"
    /\ last.err = "ok"
    /\ Node(graph, JoinTask).barrier = Some(Count(2))
    /\ Cardinality(Inbound(graph, JoinTask)) > 2
    /\ SatisfiedCount(graph, JoinTask) = 2
    /\ JoinTask \in ResultIds(last.val)
    /\ \A e \in Inbound(graph, JoinTask) : e.src = 1 => ~e.satisfied

-----------------------------------------------------------------------------
(* Specification SpecDiamond: the graph 1->2, 1->3, 2->4, 3->4 (A->B, A->C, *)
(* B->D, C->D) with barrier '*' on task 4 and transitions that always fire, *)
(* run by a driver under the single-writer discipline: it starts a task it  *)
(* was handed, and completes it and asks for its next tasks in one step,    *)
(* once per task.                                                           *)

DiamondIds == {1, 2, 3, 4}

\* Names in the order of the ids.
DiamondName(id) == Cardinality(TaskIds) + id

FiringCriteria == {Some(<<>>), Some(<<"True">>)}

RECURSIVE WithDiamondTasks(_, _)
WithDiamondTasks(g, n) ==
    IF n = 0 THEN g
    ELSE add_task(WithDiamondTasks(g, n - 1), n,
                  [NoKw EXCEPT !.name = Some(DiamondName(n))]).g

DiamondGraph(c) ==
    LET g0 == WithDiamondTasks(EmptyGraph, 4)
        g1 == add_transition(g0, 1, 2, c).g
        g2 == add_transition(g1, 1, 3, c).g
        g3 == add_transition(g2, 2, 4, c).g
        g4 == add_transition(g3, 3, 4, c).g
    IN  set_barrier(g4, 4, Star).g

InitDiamond ==
    /\ \E c \in FiringCriteria : graph = DiamondGraph(c)
    /\ last = NoCall
    /\ fired = {}
    /\ log = <<>>
    /\ workers = NoWorkers

\* The tasks the driver was handed: the start tasks and the results logged.
Handed ==
    ResultIds(get_start_tasks(graph).val)
    \cup UNION {ResultIds(log[i].val) : i \in DOMAIN log}

\* The driver starts a task it was handed and has not started before.
StartTask(t) ==
    /\ t \in Handed
    /\ Node(graph, t).state = None
    /\ UpdateTask(t, [NoKw EXCEPT !.state = Some("running")])

\* The driver completes a running task and asks for its next tasks, in one
\* step.
CompleteTask(t, s, context) ==
    /\ Node(graph, t).state = Some("running")
    /\ LET u == update_task(graph, t, [NoKw EXCEPT !.state = Some(s)])
           r == get_next_tasks(u.g, t, context)
       IN  /\ Call("get_next_tasks", t, NoKw, Some(context), r)
           /\ fired' = fired \cup FiredBy(u.g, t, context)
           /\ log' = Append(log, [id |-> t, err |-> r.err, val |-> r.val])

NextDiamond ==
    \/ \E t \in DiamondIds : StartTask(t)
    \/ \E t \in DiamondIds : \E s \in COMPLETED_STATES : \E x \in BOOLEAN :
          CompleteTask(t, s, x)

SpecDiamond == InitDiamond /\ [][NextDiamond]_vars

\* The ids of a result, in its order.
IdSeq(val) == [i \in DOMAIN val |-> val[i].id]

\* C2: in the diamond the call for task 1 returns [2, 3]; of tasks 2 and 3
\* the call of the first to complete returns [] and the call of the second
\* returns [4], in either order; no call fails.
C2_DiamondJoin ==
    /\ \A i \in DOMAIN log : log[i].err = "ok"
    /\ Len(log) >= 1 => log[1].id = 1 /\ IdSeq(log[1].val) = <<2, 3>>
    /\ Len(log) >= 2 => log[2].id \in {2, 3} /\ IdSeq(log[2].val) = <<>>
    /\ Len(log) >= 3 => /\ log[3].id \in {2, 3} \ {log[2].id}
                        /\ IdSeq(log[3].val) = <<4>>
    /\ Len(log) >= 4 => log[4].id = 4 /\ IdSeq(log[4].val) = <<>>

\* Task 3 completed before task 2, and the call for task 2 returned task 4.
C2_Witness ==
    /\ Len(log) >= 3
    /\ log[2].id = 3
    /\ log[3].id = 2
    /\ IdSeq(log[3].val) = <<4>>

-----------------------------------------------------------------------------
(* Properties of add_transition in SpecBuild. *)

\* The transitions of g with the given endpoints and criteria.
Matching(g, source, destination, criteria) ==
    {i \in DOMAIN g.edge : /\ g.edge[i].src = source
                           /\ g.edge[i].dst = destination
                           /\ g.edge[i].criteria = criteria}

\* C11: add_transition is an idempotent upsert.  When exactly one
\* transition with the given source, destination and criteria exists, the
\* call succeeds and leaves the transitions as they were, whatever parallel
\* transitions the pair has; when none exists, it succeeds, appends exactly
\* one transition with these arguments and creates the missing endpoints.
C11_IdempotentUpsert ==
    [][last'.op = "add_transition" =>
          LET source == last'.id
              destination == Val(last'.pre)
              criteria == last'.kw.extra
              n == Cardinality(Matching(graph, source, destination, criteria))
          IN  /\ n = 1 => last'.err = "ok" /\ graph'.edge = graph.edge
              /\ n = 0 =>
                    /\ last'.err = "ok"
                    /\ Len(graph'.edge) = Len(graph.edge) + 1
                    /\ SubSeq(graph'.edge, 1, Len(graph.edge)) = graph.edge
                    /\ Matching(graph', source, destination, criteria)
                          = {Len(graph'.edge)}
                    /\ has_task(graph', source)
                    /\ has_task(graph', destination)]_vars

-----------------------------------------------------------------------------
(* The specification of a client that creates transitions and updates them
   by key. *)

\* update_transition(source, destination, key, **kw); the destination is
\* recorded as pre, the key and the attributes as kw.extra.
UpdateTransition(source, destination, key, kw) ==
    /\ Call("update_transition", source,
            [NoKw EXCEPT !.extra = [key |-> key, kw |-> kw]],
            Some(destination),
            update_transition(graph, source, destination, key, kw))
    /\ UNCHANGED <<fired, log>>

\* The keys the client passes: those of the transitions it can have created,
\* and one more.
EditKeys == 0 .. MaxEditEdges

\* The attributes the client writes.
EditKwArgs == {[NoEdgeKw EXCEPT !.satisfied = Some(TRUE)]}

NextEdit ==
    \/ \E s \in GenIds : \E d \in GenIds : \E c \in CriteriaArgs :
          AddTransitionUpTo(MaxEditEdges, s, d, c)
    \/ \E s \in GenIds : \E d \in GenIds : \E k \in EditKeys :
          \E kw \in EditKwArgs : UpdateTransition(s, d, k, kw)

SpecEdit == Init /\ [][NextEdit]_vars

\* The transitions of g between the pair that have the given key.
Keyed(g, source, destination, key) ==
    {i \in DOMAIN g.edge : /\ g.edge[i].src = source
                           /\ g.edge[i].dst = destination
                           /\ g.edge[i].key = key}

\* C12: update_transition resolves the transition by its key.  Whenever a
\* transition with the key exists between source and destination, the call
\* succeeds, merges the attributes into exactly that transition and leaves
\* every other transition as it was; it fails, changing nothing, only when
\* no transition between the pair has the key.
C12_ResolvesByKey ==
    [][last'.op = "update_transition" =>
          LET source == last'.id
              destination == Val(last'.pre)
              key == last'.kw.extra.key
              kw == last'.kw.extra.kw
              hit == Keyed(graph, source, destination, key)
          IN  /\ graph'.node = graph.node
              /\ graph'.state = graph.state
              /\ DOMAIN graph'.edge = DOMAIN graph.edge
              /\ hit # {} =>
                    /\ last'.err = "ok"
                    /\ \A i \in DOMAIN graph.edge :
                          graph'.edge[i] =
                             IF i \in hit
                             THEN [graph.edge[i] EXCEPT
                                     !.satisfied = Val(kw.satisfied)]
                             ELSE graph.edge[i]
              /\ hit = {} => last'.err # "ok" /\ graph' = graph]_vars

-----------------------------------------------------------------------------
(* Updates without a state, in Spec. *)

-----------------------------------------------------------------------------
(* Expression dispatch (expressions/base.py): validate.                     *)
(* A statement is a mapping, a sequence, a string or another scalar.  A     *)
(* string is described by what the registered evaluators make of it: the    *)
(* evaluators whose has_expressions accepts it (has) and the evaluators     *)
(* whose validate finds it faulty (bad).  The items of a sequence are its   *)
(* elements; the items of a mapping are key, value, key, value, ... in      *)
(* iteration order.                                                         *)

\* get_evaluators(): the registered evaluators in iteration order.
Registry == <<"jinja", "yaql", "mistral">>

EvaluatorTypes == {Registry[i] : i \in DOMAIN Registry}

Str(has, bad) == [kind |-> "str", has |-> has, bad |-> bad, items |-> <<>>]
Scalar == [kind |-> "int", has |-> {}, bad |-> {}, items |-> <<>>]
List(items) == [kind |-> "list", has |-> {}, bad |-> {}, items |-> items]
Dict(items) == [kind |-> "dict", has |-> {}, bad |-> {}, items |-> items]

\* Evaluator.has_expressions(text) of the evaluator of the given type.
has_expressions(evaluator, text) == evaluator \in text.has

\* utils.format_error(type, expression, message).
format_error(type, expression, message) ==
    [type |-> type, expression |-> expression, message |-> message]

MultipleTypes == "Expression with multiple types is not supported."

\* Evaluator.validate(statement) of the evaluator of the given type: the
\* list of the errors it finds, two for a statement it finds faulty.
EvaluatorValidate(evaluator, statement) ==
    IF evaluator \in statement.bad
    THEN <<format_error(Some(evaluator), statement, "syntax"),
           format_error(Some(evaluator), statement, "semantics")>>
    ELSE <<>>

\* The outcome of validate: the errors, and the evaluators whose validate
\* was called, in the order of the calls.
Validated(errors, consulted) == [errors |-> errors, consulted |-> consulted]

\* validate of a string that delegates to the first matching evaluator.
validate_string_first_match(statement) ==
    LET evaluators == SelectSeq(Registry,
                                LAMBDA e : has_expressions(e, statement))
    IN  IF Len(evaluators) >= 1
        THEN Validated(EvaluatorValidate(evaluators[1], statement),
                       <<evaluators[1]>>)
        ELSE Validated(<<>>, <<>>)

\* The string branch of validate.
validate_string(statement) ==
    LET evaluators == SelectSeq(Registry,
                                LAMBDA e : has_expressions(e, statement))
    IN  IF Len(evaluators) = 1
        THEN Validated(EvaluatorValidate(evaluators[1], statement),
                       <<evaluators[1]>>)
        ELSE IF Len(evaluators) > 1
             THEN Validated(<<format_error(None, statement, MultipleTypes)>>,
                            <<>>)
        ELSE Validated(<<>>, <<>>)

RECURSIVE validate(_)
RECURSIVE ValidateItems(_)

\* The loops of validate over the keys and values of a mapping and over
\* the elements of a sequence: errors.extend(validate(item)['errors']).
ValidateItems(items) ==
    IF items = <<>> THEN Validated(<<>>, <<>>)
    ELSE LET head == validate(Head(items))
             rest == ValidateItems(Tail(items))
         IN  Validated(head.errors \o rest.errors,
                       head.consulted \o rest.consulted)

validate(statement) ==
    IF statement.kind = "dict" THEN ValidateItems(statement.items)
    ELSE IF statement.kind = "list" THEN ValidateItems(statement.items)
    ELSE IF statement.kind = "str" THEN validate_string(statement)
    ELSE Validated(<<>>, <<>>)

\* validate(statement) of the statement recorded as pre.
Validate ==
    /\ last.op = "init"
    /\ last.pre # None
    /\ Call("validate", 0, NoKw, last.pre,
            Ret(graph, "ok", validate(Val(last.pre))))
    /\ UNCHANGED <<fired, log>>

-----------------------------------------------------------------------------
(* Specification SpecValidate: validate is applied to one statement: a      *)
(* scalar, a sequence of up to MaxItems items, a mapping of up to MaxPairs  *)
(* entries, or one of these nested in a sequence or as the value of a       *)
(* mapping.                                                                 *)

Strings == UNION {{Str(has, bad) : bad \in SUBSET has} :
                     has \in SUBSET EvaluatorTypes}

Scalars == Strings \cup {Scalar}

RECURSIVE SeqsUpTo(_, _)
SeqsUpTo(S, n) ==
    IF n = 0 THEN {<<>>}
    ELSE LET shorter == SeqsUpTo(S, n - 1)
         IN  shorter \cup {Append(q, x) : q \in shorter, x \in S}

\* The items of the sequences and mappings: a scalar that is no string,
\* and the strings that every evaluator that accepts them finds faulty.
Items == {Scalar} \cup {Str(has, has) : has \in SUBSET EvaluatorTypes}

\* Key, value, key, value, ... of up to n entries with different keys.
RECURSIVE EntriesUpTo(_)
EntriesUpTo(n) ==
    IF n = 0 THEN {<<>>}
    ELSE LET fewer == EntriesUpTo(n - 1)
             keys(q) == {q[i] : i \in {j \in DOMAIN q : j % 2 = 1}}
         IN  fewer \cup UNION {{q \o <<k, v>> : k \in Items \ keys(q),
                                                  v \in Items} :
                                 q \in fewer}

Flat ==
    Scalars
    \cup {List(q) : q \in SeqsUpTo(Items, MaxItems)}
    \cup {Dict(q) : q \in EntriesUpTo(MaxPairs)}

Statements ==
    Flat \cup {List(<<x>>) : x \in Flat}
         \cup {Dict(<<Scalar, x>>) : x \in Flat}

InitValidate ==
    /\ graph = EmptyGraph
    /\ \E statement \in Statements :
          last = [NoCall EXCEPT !.pre = Some(statement)]
    /\ fired = {}
    /\ log = <<>>
    /\ workers = NoWorkers

NextValidate == Validate

SpecValidate == InitValidate /\ [][NextValidate]_vars

\* The strings of a statement in the order validate meets them.
RECURSIVE Leaves(_)
RECURSIVE LeavesOf(_)
LeavesOf(items) ==
    IF items = <<>> THEN <<>>
    ELSE Leaves(Head(items)) \o LeavesOf(Tail(items))

Leaves(statement) ==
    IF statement.kind \in {"dict", "list"} THEN LeavesOf(statement.items)
    ELSE IF statement.kind = "str" THEN <<statement>>
    ELSE <<>>

\* What the dispatch owes for one string, by the number of evaluators that
\* accept it.
Owed(text) ==
    IF text.has = {} THEN Validated(<<>>, <<>>)
    ELSE IF Cardinality(text.has) = 1
         THEN LET e == CHOOSE e \in text.has : TRUE
              IN  Validated(EvaluatorValidate(e, text), <<e>>)
    ELSE Validated(<<[type |-> None, expression |-> text,
                      message |-> MultipleTypes]>>, <<>>)

RECURSIVE OwedAll(_)
OwedAll(texts) ==
    IF texts = <<>> THEN Validated(<<>>, <<>>)
    ELSE LET rest == OwedAll(Tail(texts))
         IN  Validated(Owed(Head(texts)).errors \o rest.errors,
                       Owed(Head(texts)).consulted \o rest.consulted)

\* C14: validate of a string that no evaluator accepts yields no error; of
\* a string exactly one evaluator accepts, exactly the errors of that
\* evaluator's validate; of a string two or more accept, exactly one
\* 'multiple types' error, and no evaluator's validate is called.  For a
\* mapping or a sequence the result is the concatenation, in order, of the
\* results for all its keys, values and elements.
C14_ValidateDispatch ==
    last.op = "validate" =>
       /\ last.err = "ok"
       /\ last.val = OwedAll(Leaves(Val(last.pre)))

\* validate was applied to a mapping whose key two evaluators accept and
\* whose value one evaluator accepts and finds faulty.
C14_Witness ==
    /\ last.op = "validate"
    /\ Val(last.pre).kind = "dict"
    /\ Len(Val(last.pre).items) = 2
    /\ Cardinality(Val(last.pre).items[1].has) >= 2
    /\ Val(last.pre).items[1].bad # {}
    /\ Cardinality(Val(last.pre).items[2].has) = 1
    /\ Val(last.pre).items[2].bad # {}
    /\ Len(last.val.errors) = 3
    /\ last.val.errors[1].message = MultipleTypes
    /\ Len(last.val.consulted) = 1

-----------------------------------------------------------------------------
(* Repeated evaluation, in SpecBarrier. *)

\* C15: get_next_tasks is idempotent on repeated evaluation.  A call for a
\* completed task that directly follows a call for the same task with the
\* same context has the same outcome and returns the same sequence as the
\* first, and leaves the graph exactly as the first left it.
C15_RepeatedEvaluation ==
    [][(/\ last.op = "get_next_tasks"
        /\ last'.op = "get_next_tasks"
        /\ last'.id = last.id
        /\ last'.pre = last.pre
        /\ Completed(graph, last.id))
       => (/\ last'.err = last.err
           /\ last'.val = last.val
           /\ graph' = graph)]_vars

-----------------------------------------------------------------------------
(* Specification SpecRearm: the join graph with the wildcard barrier, whose *)
(* tasks are run and reset for a new iteration in any order.                *)

InitRearm ==
    /\ graph = BarrierGraph(Star, FALSE)
    /\ last = NoCall
    /\ fired = {}
    /\ log = <<>>
    /\ workers = NoWorkers

NextRearm ==
    \/ \E t \in TaskIds : \E s \in BarrierStates :
          UpdateTask(t, [NoKw EXCEPT !.state = Some(s)])
    \/ \E t \in TaskIds : ResetTask(t)
    \/ \E p \in Preds : \E x \in BOOLEAN : GetNextTasks(p, x)

SpecRearm == InitRearm /\ [][NextRearm]_vars

\* The task has no state now, and a transition of its fired in the past:
\* it completed in an earlier iteration and was reset.
ResetAfterFiring(g, id) ==
    /\ Node(g, id).state = None
    /\ \E e \in EdgeSet(g) : e.src = id /\ <<e.src, e.dst, e.key>> \in fired

\* C16: a stale join after a reset.  When every inbound transition of the
\* join task (barrier '*') has fired, and predecessors have been reset since
\* and have not completed again, a get_next_tasks call for a completed
\* predecessor whose transition fires returns the join task at once.
C16_StaleJoin ==
    (/\ last.op = "get_next_tasks"
     /\ Completed(graph, last.id)
     /\ FiresTo(graph, last.id, JoinTask, Val(last.pre))
     /\ \A e \in Inbound(graph, JoinTask) : <<e.src, e.dst, e.key>> \in fired
     /\ \E q \in Preds \ {last.id} : ResetAfterFiring(graph, q))
    => /\ last.err = "ok"
       /\ JoinTask \in ResultIds(last.val)

\* The join task and all its predecessors were reset, one predecessor
\* completed again, and its call returned the join task while every other
\* predecessor is still without a state.
C16_Witness ==
    /\ last.op = "get_next_tasks"
    /\ last.err = "ok"
    /\ Completed(graph, last.id)
    /\ JoinTask \in ResultIds(last.val)
    /\ Node(graph, JoinTask).state = None
    /\ \A q \in Preds \ {last.id} : ResetAfterFiring(graph, q)

-----------------------------------------------------------------------------
(* The frame of get_next_tasks, in SpecRun. *)

\* C17: get_next_tasks changes nothing but the satisfied mark of outgoing
\* transitions of the task it is called for whose criteria are all truthy
\* in the context, which it sets.  It leaves every task's attributes, the
\* workflow state, the number, order, endpoints, keys and criteria of the
\* transitions, every transition with another source and every outgoing
\* transition that did not fire as they were.
C17_Frame ==
    [][last'.op = "get_next_tasks" =>
          /\ graph'.node = graph.node
          /\ graph'.state = graph.state
          /\ Len(graph'.edge) = Len(graph.edge)
          /\ \A i \in DOMAIN graph.edge :
                \/ graph'.edge[i] = graph.edge[i]
                \/ /\ graph'.edge[i] = [graph.edge[i] EXCEPT !.satisfied = TRUE]
                   /\ graph.edge[i].src = last'.id
                   /\ graph.edge[i].criteria # None
                   /\ AllTruthy(Val(graph.edge[i].criteria), Val(last'.pre))]_vars

\* A call marked one outgoing transition of the task and left another one,
\* whose criteria were not truthy, unmarked.
C17_Witness ==
    /\ last.op = "get_next_tasks"
    /\ last.err = "ok"
    /\ Completed(graph, last.id)
    /\ \E e, f \in EdgeSet(graph) :
          /\ e.src = last.id /\ f.src = last.id
          /\ e.satisfied /\ ~f.satisfied
          /\ <<e.src, e.dst, e.key>> \in fired
          /\ f.criteria # None
          /\ ~AllTruthy(Val(f.criteria), Val(last.pre))

-----------------------------------------------------------------------------
(* Transitions created without criteria, in SpecRun. *)

\* C18: a transition created by add_transition without criteria behaves as
\* one with an empty criteria list: get_next_tasks for its completed source
\* does not fail on account of it, and a call that succeeds leaves it
\* marked satisfied.
C18_AbsentCriteriaFire ==
    (/\ last.op = "get_next_tasks"
     /\ Completed(graph, last.id))
    => /\ last.err # "TypeError"
       /\ last.err = "ok" =>
             \A e \in EdgeSet(graph) :
                (e.src = last.id /\ e.criteria = None) => e.satisfied

-----------------------------------------------------------------------------
(* Concurrent get_next_tasks calls on one graph.  A call in progress is a   *)
(* record of its position (pc) and its local variables; each step reads or  *)
(* writes the shared graph once.                                            *)

\* The local variables of a call that has not begun.
Begin(task_id, context) ==
    [pc |-> "enter", task_id |-> task_id, context |-> context,
     outbounds |-> <<>>, tasks |-> <<>>, key |-> None, seen |-> <<>>,
     err |-> "ok", val |-> None]

Raise(w, err) == [w EXCEPT !.pc = "done", !.err = err]

\* The end of an iteration of the second loop: on to the next fired
\* transition, or to the return.
Continue(w) ==
    [w EXCEPT !.outbounds = Tail(@),
              !.pc = IF Tail(w.outbounds) = <<>> THEN "return" ELSE "test"]

\* get_task and the check of the task's state.
Enter(g, w) ==
    IF ~has_task(g, w.task_id) THEN Raise(w, "Exception")
    ELSE IF Node(g, w.task_id).state = None THEN Raise(w, "KeyError")
    ELSE IF Val(Node(g, w.task_id).state) \notin COMPLETED_STATES
         THEN [w EXCEPT !.pc = "done", !.val = Some(<<>>)]
    ELSE [w EXCEPT !.pc = "evaluate"]

\* The first loop: the criteria of the outgoing transitions are evaluated.
Evaluate(g, w) ==
    LET o == Outbounds(get_next_transitions(g, w.task_id), w.context)
    IN  IF o.err # "ok" THEN Raise(w, o.err)
        ELSE [w EXCEPT !.outbounds = o.out,
                       !.pc = IF o.out = <<>> THEN "return" ELSE "test"]

\* The test of the satisfied mark of the fired transition at hand.
Test(g, w) ==
    IF ~EdgeNow(g, Head(w.outbounds)).satisfied
    THEN [w EXCEPT !.pc = "lookup"]
    ELSE [w EXCEPT !.pc = "barrier"]

\* update_transition, first half: get_transition reads the edges.
Lookup(g, w) ==
    LET seq == Head(w.outbounds)
        r == get_transition(g, w.task_id, seq.dst, Some(seq.key), None)
    IN  IF r.err # "ok" THEN Raise(w, r.err)
        ELSE [w EXCEPT !.pc = "write", !.key = Some(Val(r.val).key),
                       !.seen = g.edge]

\* The edges a write changes, were it to put back the edges the lookup saw.
WriteBaseSeen(live, seen) == seen

\* The edges a write changes: the edges of the shared graph as they are at
\* the time of the write.
WriteBase(live, seen) == live

\* The attribute write that writes nothing.
WriteNothing(g, w) == g

\* update_transition, second half: the attribute of the transition found
\* is set in the shared graph.
Write(g, w) ==
    LET seq == Head(w.outbounds)
        base == WriteBase(g.edge, w.seen)
        upd(e) == IF e.src = w.task_id /\ e.dst = seq.dst /\ e.key = Val(w.key)
                  THEN [e EXCEPT !.satisfied = TRUE] ELSE e
    IN  [g EXCEPT !.edge = [i \in DOMAIN base |-> upd(base[i])]]

\* The barrier check of the destination: the satisfied inbound transitions
\* are counted.
Barrier(g, w) ==
    IF BelowBarrier(g, Head(w.outbounds).dst) THEN Continue(w)
    ELSE [w EXCEPT !.pc = "append"]

\* get_task of the destination, which is appended with its name.
AppendTask(g, w) ==
    LET next_task_id == Head(w.outbounds).dst
    IN  IF Node(g, next_task_id).name = None THEN Raise(w, "KeyError")
        ELSE [Continue(w) EXCEPT
                !.tasks = Append(@, [id |-> next_task_id,
                                     name |-> Val(Node(g, next_task_id).name)])]

Return(w) == [w EXCEPT !.pc = "done", !.val = Some(SortByName(w.tasks))]

\* One step of the call in progress of worker i.
Step(i) ==
    LET w == workers[i]
    IN  /\ w.pc # "done"
        /\ graph' = IF w.pc = "write" THEN Write(graph, w) ELSE graph
        /\ workers' = [workers EXCEPT ![i] =
              CASE w.pc = "enter" -> Enter(graph, w)
                [] w.pc = "evaluate" -> Evaluate(graph, w)
                [] w.pc = "test" -> Test(graph, w)
                [] w.pc = "lookup" -> Lookup(graph, w)
                [] w.pc = "write" -> [w EXCEPT !.pc = "barrier"]
                [] w.pc = "barrier" -> Barrier(graph, w)
                [] w.pc = "append" -> AppendTask(graph, w)
                [] w.pc = "return" -> Return(w)]
        /\ UNCHANGED <<last, fired, log>>

-----------------------------------------------------------------------------
(* Specification SpecRace: in the diamond, after task 1 completed and was   *)
(* evaluated and tasks 2 and 3 completed, two workers call get_next_tasks   *)
(* for tasks 2 and 3, their steps interleaved in any order.                 *)

\* complete(t): the task is moved to running and to the completed state s.
Complete(g, t, s) ==
    update_task(update_task(g, t, [NoKw EXCEPT !.state = Some("running")]).g,
                t, [NoKw EXCEPT !.state = Some(s)]).g

RaceGraph(c, s2, s3) ==
    LET g1 == Complete(DiamondGraph(c), 1, "succeeded")
        g2 == get_next_tasks(g1, 1, TRUE).g
    IN  Complete(Complete(g2, 2, s2), 3, s3)

RaceTasks == <<2, 3>>

\* Criteria that are truthy in the context of the two calls.
RaceCriteria == FiringCriteria \cup {Some(<<ExprX>>)}

InitRace ==
    /\ \E c \in RaceCriteria : \E s2, s3 \in COMPLETED_STATES :
          graph = RaceGraph(c, s2, s3)
    /\ last = NoCall
    /\ fired = {}
    /\ log = <<>>
    /\ workers = [i \in DOMAIN RaceTasks |-> Begin(RaceTasks[i], TRUE)]

NextRace == \E i \in DOMAIN RaceTasks : Step(i)

SpecRace == InitRace /\ [][NextRace]_vars

\* C19: no join is lost when the two calls interleave.  Once both calls
\* have returned, neither has failed, both inbound transitions of the join
\* task are marked satisfied, and the join task is in the result of at
\* least one of the two calls.
C19_NoLostJoin ==
    (\A i \in DOMAIN workers : workers[i].pc = "done")
    => /\ \A i \in DOMAIN workers : workers[i].err = "ok"
       /\ \A e \in Inbound(graph, 4) : e.satisfied
       /\ \E i \in DOMAIN workers : 4 \in ResultIds(Val(workers[i].val))

\* Both calls have returned after each marked its transition before the
\* other counted: both were handed the join task.
C19_Witness ==
    /\ workers # NoWorkers
    /\ \A i \in DOMAIN workers :
          /\ workers[i].pc = "done"
          /\ workers[i].err = "ok"
          /\ 4 \in ResultIds(Val(workers[i].val))

-----------------------------------------------------------------------------
(* Specification SpecProgress: a driver runs an acyclic workflow.  The      *)
(* graph is any acyclic graph over the tasks (a transition leads from a     *)
(* task to one with a greater id), every task named, every transition with  *)
(* the empty criteria list, every task with the barrier '*' or none.  The   *)
(* driver has called get_start_tasks; it completes a task it was handed,    *)
(* runs the get_next_tasks call for it to its return with nothing else      *)
(* acting in between, and does not stop while it can take a step.           *)

\* The tasks of the workflow.
DagIds == 1 .. MaxDagTasks

\* The pairs a transition may link, and the k-th of them in creation order.
DagPairs == {p \in DagIds \X DagIds : p[1] < p[2]}

PairAt(k) ==
    <<((k - 1) \div MaxDagTasks) + 1, ((k - 1) % MaxDagTasks) + 1>>

\* add_transition(i, j, []) for the first k pairs that are in E.
RECURSIVE WithTransitions(_, _, _)
WithTransitions(g, E, k) ==
    IF k = 0 THEN g
    ELSE LET before == WithTransitions(g, E, k - 1)
         IN  IF PairAt(k) \in E
             THEN add_transition(before, PairAt(k)[1], PairAt(k)[2],
                                 Some(<<>>)).g
             ELSE before

\* set_barrier(t, '*') for the tasks 1..n that are in B.
RECURSIVE WithBarriers(_, _, _)
WithBarriers(g, B, n) ==
    IF n = 0 THEN g
    ELSE LET before == WithBarriers(g, B, n - 1)
         IN  IF n \in B THEN set_barrier(before, n, Star).g ELSE before

DagGraph(E, B) ==
    LET g1 == WithTasks(EmptyGraph, MaxDagTasks)
        g2 == WithTransitions(g1, E, MaxDagTasks * MaxDagTasks)
    IN  WithBarriers(g2, B, MaxDagTasks)

InitProgress ==
    /\ \E E \in SUBSET DagPairs : \E B \in SUBSET DagIds :
          graph = DagGraph(E, B)
    /\ last = NoCall
    /\ fired = {}
    /\ log = <<[id |-> 0, err |-> get_start_tasks(graph).err,
                val |-> get_start_tasks(graph).val]>>
    /\ workers = NoWorkers

\* The tasks the calls of the driver have returned.
Received == UNION {ResultIds(log[i].val) : i \in DOMAIN log}

\* The driver takes a task it was handed and has not run, moves it to
\* running and to a completed state, and begins the get_next_tasks call for
\* it.  No other call is in progress.
TakeTask(t, s) ==
    /\ workers = NoWorkers
    /\ Node(graph, t).state = None
    /\ t \in Received
    /\ graph' = Complete(graph, t, s)
    /\ workers' = <<Begin(t, TRUE)>>
    /\ UNCHANGED <<last, fired, log>>

\* The call of the driver takes its next step; nothing else acts meanwhile.
StepCall ==
    /\ workers # NoWorkers
    /\ Step(1)

\* The call has returned: the driver receives its result.
ReceiveResult ==
    /\ workers # NoWorkers
    /\ workers[1].pc = "done"
    /\ LET w == workers[1]
           val == IF w.val = None THEN None ELSE Val(w.val)
       IN  /\ last' = [op |-> "get_next_tasks", id |-> w.task_id, kw |-> NoKw,
                       pre |-> Some(w.context), err |-> w.err, val |-> val]
           /\ log' = Append(log, [id |-> w.task_id, err |-> w.err, val |-> val])
    /\ workers' = NoWorkers
    /\ UNCHANGED <<graph, fired>>

NextProgress ==
    \/ \E t \in DagIds : \E s \in COMPLETED_STATES : TakeTask(t, s)
    \/ StepCall
    \/ ReceiveResult

SpecProgress ==
    InitProgress /\ [][NextProgress]_vars /\ WF_vars(NextProgress)

\* C20: progress in acyclic workflows.  The driver is eventually handed
\* every task of the graph, join tasks included.
C20_Progress == <>(DagIds \subseteq Received)

\* The driver was handed every task of a graph in which a task with the
\* barrier '*' has more than one inbound transition and was handed by a
\* get_next_tasks call.
C20_Witness ==
    /\ DagIds \subseteq Received
    /\ \E t \in DagIds :
          /\ Node(graph, t).barrier = Some(Star)
          /\ Cardinality(Inbound(graph, t)) > 1
          /\ \E i \in DOMAIN log : log[i].id # 0 /\ t \in ResultIds(log[i].val)

====
